---- MODULE Spec2Model ----
(***************************************************************************)
(* SplitJourney ledger and settlement engine (src/logic.py) together with  *)
(* the add/edit expense screens that validate its inputs.                  *)
(*                                                                         *)
(* Money is a Python float in the source.  The model computes with exact   *)
(* rationals <<numerator, denominator>> (denominator > 0, lowest terms):   *)
(* the float error of the few additions and divisions involved is many     *)
(* orders of magnitude below every tolerance the code and the claims use.  *)
(* The two places where a float can fall on either side of a decimal       *)
(* boundary are modelled as a choice between both outcomes: round(x, 2)    *)
(* of an exact half cent, and the comparison of a one-cent remainder       *)
(* against the literal 0.01.                                               *)
(***************************************************************************)
EXTENDS Integers, Sequences, FiniteSets, TLC

VARIABLES
    members,      \* ids of the GroupMember rows of the group (group.members)
    expenses,     \* Expense rows with their ExpenseSplit rows: id -> record
    settlements,  \* Settlement rows in insertion order
    last,         \* the most recent call of the engine, with its arguments
    balances,     \* the map calculate_member_balances returned most recently
    loop,         \* the run of simplify_debts on that map
    budget_amount, \* Group.budget_amount of the group: a float or None
    status,       \* the dict get_budget_status returned most recently
    other,        \* the screen a second browser session has open
    reader,       \* a calculate_member_balances call of a second session
    votes         \* PollVote rows in insertion order

ledger == <<members, expenses, settlements>>
\* what the second session and the polls hold
elsewhere == <<other, reader, votes>>
vars == <<members, expenses, settlements, last, balances, loop, budget_amount, status,
          other, reader, votes>>

-----------------------------------------------------------------------------
(* Bounds of the model.                                                    *)

NumMembers == 2
MaxExpenses == 1
MaxSettlements == 1
MaxBalances == 3

-----------------------------------------------------------------------------
(* Exact arithmetic standing for Python's float operators.                 *)

AbsInt(n) == IF n < 0 THEN -n ELSE n

RECURSIVE GCD(_, _)
GCD(a, b) == IF b = 0 THEN a ELSE GCD(b, a % b)

Norm(n, d) ==
    LET s == IF d < 0 THEN -1 ELSE 1
        g == GCD(AbsInt(n), AbsInt(d))
    IN  <<(s * n) \div g, (s * d) \div g>>

Rat(n, d) == Norm(n, d)
Zero == Rat(0, 1)

\* the floats that are no numbers: inf, -inf and nan
Inf == <<1, 0>>
MinusInf == <<-1, 0>>
NaN == <<0, 0>>
Finite(x) == x[2] # 0

\* sums and comparisons go through the least common denominator, which keeps
\* the integers small
LCM(a, b) == (a \div GCD(a, b)) * b
Add(x, y) ==
    IF Finite(x) /\ Finite(y)
    THEN LET l == LCM(x[2], y[2])
         IN  Norm(x[1] * (l \div x[2]) + y[1] * (l \div y[2]), l)
    ELSE IF x = NaN \/ y = NaN THEN NaN
    ELSE IF Finite(x) THEN y
    ELSE IF Finite(y) \/ x = y THEN x
    ELSE NaN
Neg(x) == <<-x[1], x[2]>>
Sub(x, y) == Add(x, Neg(y))
Mul(x, y) == Norm(x[1] * y[1], x[2] * y[2])
Div(x, y) == Norm(x[1] * y[2], x[2] * y[1])
Lt(x, y) ==
    IF Finite(x) /\ Finite(y)
    THEN LET l == LCM(x[2], y[2])
         IN  x[1] * (l \div x[2]) < y[1] * (l \div y[2])
    ELSE /\ x # NaN
         /\ y # NaN
         /\ x # y
         /\ x = MinusInf \/ y = Inf
Le(x, y) == x # NaN /\ y # NaN /\ ~Lt(y, x)
Gt(x, y) == Lt(y, x)
AbsR(x) == <<AbsInt(x[1]), x[2]>>
MinR(x, y) == IF Lt(y, x) THEN y ELSE x

RECURSIVE SumSeq(_)
SumSeq(s) == IF s = <<>> THEN Zero ELSE Add(Head(s), SumSeq(Tail(s)))

\* round(x, 2): the nearest multiple of 0.01; for an exact half cent the
\* float's binary value decides, so both neighbours are possible outcomes.
Round2(x) ==
    IF ~Finite(x) THEN {x}
    ELSE LET whole == x[1] \div x[2]
             n == (x[1] % x[2]) * 100
             q == whole * 100 + (n \div x[2])
             r == n % x[2]
         IN  IF 2 * r < x[2] THEN {Rat(q, 100)}
             ELSE IF 2 * r > x[2] THEN {Rat(q + 1, 100)}
             ELSE {Rat(q, 100), Rat(q + 1, 100)}

Cent == Rat(1, 100)
Tenth == Rat(1, 10)
Hundred == Rat(100, 1)

-----------------------------------------------------------------------------
(* Helpers over ids and rows.                                              *)

RECURSIVE SortedIds(_)
SortedIds(S) ==
    IF S = {} THEN <<>>
    ELSE LET m == CHOOSE x \in S : \A y \in S : x <= y
         IN  <<m>> \o SortedIds(S \ {m})

\* group.members: the member rows of the group, in id order
MemberList == SortedIds(members)

Get(d, k, default) == IF k \in DOMAIN d THEN d[k] ELSE default

-----------------------------------------------------------------------------
(* Text of an input field of the add/edit screens.  float() of a numeral   *)
(* is its value; an empty field and a non-numeral raise ValueError.        *)

Num(r) == [kind |-> "num", value |-> r]
Blank == [kind |-> "blank", value |-> Zero]
Garbage == [kind |-> "bad", value |-> Zero]

\* float(amount_input.value): ValueError on an empty or non-numeric text
ParsesAsFloat(t) == t.kind = "num"
Float(t) == t.value

\* float(control.value or 0): an empty text counts as 0
OrZero(t) == IF t.kind = "blank" THEN Num(Zero) ELSE t

-----------------------------------------------------------------------------
(* The split allocation shared by create_expense and update_expense.       *)
(* A split row is [member_id, amount_owed]; a list of rows is a sequence.  *)
(* split_inputs is a dict: a function from a set of ids.                   *)

SplitRow(m, owed) == [member_id |-> m, amount_owed |-> owed]

\* split_inputs.get(member.id, False) for the members, or every member
\* when split_inputs is empty
SelectedMembers(ml, split_inputs) ==
    IF DOMAIN split_inputs # {}
    THEN SelectSeq(ml, LAMBDA m : Get(split_inputs, m, FALSE))
    ELSE ml

\* a slip: the amount divided among all the members, not the selected ones
EqualSplitsAmongAll(ml, amount, split_inputs) ==
    LET selected_members == SelectedMembers(ml, split_inputs)
    IN  IF Len(selected_members) > 0
        THEN [k \in 1..Len(selected_members) |->
                 SplitRow(selected_members[k], Div(amount, Rat(Len(ml), 1)))]
        ELSE <<>>

EqualSplits(ml, amount, split_inputs) ==
    LET selected_members == SelectedMembers(ml, split_inputs)
        num_selected == Len(selected_members)
    IN  IF num_selected > 0
        THEN [k \in 1..num_selected |->
                 SplitRow(selected_members[k], Div(amount, Rat(num_selected, 1)))]
        ELSE <<>>

\* a slip: no row for a member without an input
UnequalSplitsOnlySupplied(ml, split_inputs) ==
    LET supplied == SelectSeq(ml, LAMBDA m : m \in DOMAIN split_inputs)
    IN  [k \in 1..Len(supplied) |-> SplitRow(supplied[k], split_inputs[supplied[k]])]

UnequalSplits(ml, split_inputs) ==
    [k \in 1..Len(ml) |-> SplitRow(ml[k], Get(split_inputs, ml[k], Zero))]

\* a slip: the percentage used as a fraction
PercentageSplitsUnscaled(ml, amount, split_inputs) ==
    [k \in 1..Len(ml) |->
        SplitRow(ml[k], Mul(Get(split_inputs, ml[k], Zero), amount))]

PercentageSplits(ml, amount, split_inputs) ==
    [k \in 1..Len(ml) |->
        SplitRow(ml[k], Mul(Div(Get(split_inputs, ml[k], Zero), Hundred), amount))]

\* a slip: only the shares of the group's members counted
TotalSharesOfMembers(split_inputs) ==
    SumSeq([k \in 1..Len(MemberList) |-> Get(split_inputs, MemberList[k], Zero)])

\* sum(float(val) for val in split_inputs.values())
TotalShares(split_inputs) ==
    SumSeq([k \in 1..Cardinality(DOMAIN split_inputs) |->
               split_inputs[SortedIds(DOMAIN split_inputs)[k]]])

SharesSplits(ml, amount, split_inputs) ==
    LET total_shares == TotalShares(split_inputs)
    IN  IF Gt(total_shares, Zero)
        THEN LET cost_per_share == Div(amount, total_shares)
             IN  [k \in 1..Len(ml) |->
                     SplitRow(ml[k], Mul(Get(split_inputs, ml[k], Zero), cost_per_share))]
        ELSE <<>>

ComputeSplits(ml, amount, split_type, split_inputs) ==
    CASE split_type = "Equal" -> EqualSplits(ml, amount, split_inputs)
      [] split_type = "Unequal" -> UnequalSplits(ml, split_inputs)
      [] split_type = "Percentage" -> PercentageSplits(ml, amount, split_inputs)
      [] split_type = "Shares" -> SharesSplits(ml, amount, split_inputs)
      [] OTHER -> <<>>

-----------------------------------------------------------------------------
(* calculate_member_balances: the three passes over a group's rows.        *)
(* A balance map is a function from the member ids to amounts; its keys    *)
(* are visited in id order (the dict is built from group.members).         *)

TheGroup == 1

\* a group id no Group row carries
MissingGroup == 2
GroupIds == {TheGroup, MissingGroup}

ExpenseRow(g, desc, amount, payer, splits) ==
    [group_id |-> g, description |-> desc, amount |-> amount,
     payer_member_id |-> payer, splits |-> splits]

SettlementRow(g, payer, receiver, amount) ==
    [group_id |-> g, payer_member_id |-> payer,
     receiver_member_id |-> receiver, amount |-> amount]

\* db.query(Expense).filter(Expense.group_id == group_id).all()
ExpensesOf(exps, g) ==
    LET ids == SortedIds({e \in DOMAIN exps : exps[e].group_id = g})
    IN  [k \in 1..Len(ids) |-> exps[ids[k]]]

\* db.query(Settlement).filter(Settlement.group_id == group_id).all()
SettlementsOf(setts, g) == SelectSeq(setts, LAMBDA s : s.group_id = g)

\* a slip: a key that is missing from balances is added to it
CreditAnyKey(bal, k, delta) ==
    IF k \in DOMAIN bal THEN [bal EXCEPT ![k] = Add(@, delta)] ELSE bal @@ (k :> delta)

\* balances[k] += delta, only when k is a key of balances
Credit(bal, k, delta) ==
    IF k \in DOMAIN bal THEN [bal EXCEPT ![k] = Add(@, delta)] ELSE bal

Debit(bal, k, delta) ==
    IF k \in DOMAIN bal THEN [bal EXCEPT ![k] = Sub(@, delta)] ELSE bal

\* 1. Add amounts paid (Creditor)
RECURSIVE AddPaid(_, _)
AddPaid(bal, exps) ==
    IF exps = <<>> THEN bal
    ELSE AddPaid(Credit(bal, Head(exps).payer_member_id, Head(exps).amount), Tail(exps))

RECURSIVE SubtractSplits(_, _)
SubtractSplits(bal, splits) ==
    IF splits = <<>> THEN bal
    ELSE SubtractSplits(Debit(bal, Head(splits).member_id, Head(splits).amount_owed),
                        Tail(splits))

\* 2. Subtract amounts owed (Debtor)
RECURSIVE SubtractOwed(_, _)
SubtractOwed(bal, exps) ==
    IF exps = <<>> THEN bal
    ELSE SubtractOwed(SubtractSplits(bal, Head(exps).splits), Tail(exps))

\* a slip: the payer debited
SettlePayerDebited(bal, s) == Debit(bal, s.payer_member_id, s.amount)

SettlePayer(bal, s) == Credit(bal, s.payer_member_id, s.amount)

\* a slip: the receiver left as it was
SettleReceiverUntouched(bal, s) == bal

SettleReceiver(bal, s) == Debit(bal, s.receiver_member_id, s.amount)

\* 3. Account for settlements
RECURSIVE ApplySettlements(_, _)
ApplySettlements(bal, setts) ==
    IF setts = <<>> THEN bal
    ELSE ApplySettlements(SettleReceiver(SettlePayer(bal, Head(setts)), Head(setts)),
                          Tail(setts))

\* a slip: the members looked up without regard to the group id asked for
calculate_member_balancesAnyGroup(mem, exps, setts, g) ==
    LET zeroed == [m \in mem |-> Zero]
        group_expenses == ExpensesOf(exps, g)
    IN  ApplySettlements(
            SubtractOwed(AddPaid(zeroed, group_expenses), group_expenses),
            SettlementsOf(setts, g))

\* The group with id g exists exactly when g = TheGroup; mem are its members.
calculate_member_balances(mem, exps, setts, g) ==
    IF g # TheGroup THEN <<>>
    ELSE LET zeroed == [m \in mem |-> Zero]
             group_expenses == ExpensesOf(exps, g)
         IN  ApplySettlements(
                 SubtractOwed(AddPaid(zeroed, group_expenses), group_expenses),
                 SettlementsOf(setts, g))

-----------------------------------------------------------------------------
(* simplify_debts.  The result is the set of transaction lists the call    *)
(* can return: one list, unless a balance is an exact half cent or a       *)
(* remainder is exactly one cent.                                          *)

Entry(m, amount) == [id |-> m, amount |-> amount]
Transaction(payer, receiver, amount) ==
    [payer |-> payer, receiver |-> receiver, amount |-> amount]

\* a slip: every negative balance taken for a debt
IsDebtorBelowZero(amount) == Lt(amount, Zero)

IsDebtor(amount) == Lt(amount, Neg(Cent))

\* a slip: "else" for "elif amount > 0.01"
IsCreditorOtherwise(amount) == TRUE

IsCreditor(amount) == Gt(amount, Cent)

\* every way round(amount, 2) can come out for the balances of the map
RoundedMaps(bal) ==
    {r \in [DOMAIN bal -> UNION {Round2(bal[m]) : m \in DOMAIN bal}] :
        \A m \in DOMAIN bal : r[m] \in Round2(bal[m])}

\* list.sort(key=amount) and list.sort(key=amount, reverse=True): both stable
RECURSIVE InsertSorted(_, _, _)
InsertSorted(x, sorted, reverse) ==
    IF sorted = <<>> THEN <<x>>
    ELSE IF (IF reverse THEN Gt(x.amount, Head(sorted).amount)
                        ELSE Lt(x.amount, Head(sorted).amount))
         THEN <<x>> \o sorted
         ELSE <<Head(sorted)>> \o InsertSorted(x, Tail(sorted), reverse)

RECURSIVE SortEntries(_, _, _)
SortEntries(entries, sorted, reverse) ==
    IF entries = <<>> THEN sorted
    ELSE SortEntries(Tail(entries), InsertSorted(Head(entries), sorted, reverse), reverse)

Debtors(rounded) ==
    LET ids == SelectSeq(SortedIds(DOMAIN rounded), LAMBDA m : IsDebtor(rounded[m]))
    IN  SortEntries([k \in 1..Len(ids) |-> Entry(ids[k], rounded[ids[k]])], <<>>, FALSE)

\* a slip: the creditors sorted like the debtors, smallest first
CreditorsAscending(rounded) ==
    LET ids == SelectSeq(SortedIds(DOMAIN rounded),
                         LAMBDA m : ~IsDebtor(rounded[m]) /\ IsCreditor(rounded[m]))
    IN  SortEntries([k \in 1..Len(ids) |-> Entry(ids[k], rounded[ids[k]])], <<>>, FALSE)

Creditors(rounded) ==
    LET ids == SelectSeq(SortedIds(DOMAIN rounded),
                         LAMBDA m : ~IsDebtor(rounded[m]) /\ IsCreditor(rounded[m]))
    IN  SortEntries([k \in 1..Len(ids) |-> Entry(ids[k], rounded[ids[k]])], <<>>, TRUE)

\* x < 0.01 for a remainder x that is a whole number of cents
BelowCent(x) == IF x = Cent THEN {TRUE, FALSE} ELSE {Lt(x, Cent)}

\* the loop's state: the rounded amounts, both lists with their remaining
\* amounts, the cursors i and j (counted from 0 as in the source), the
\* transactions so far, and where the call stands
LoopInit(rounded) ==
    [pc |-> "loop", rounded |-> rounded,
     debtors |-> Debtors(rounded), creditors |-> Creditors(rounded),
     i |-> 0, j |-> 0, transactions |-> <<>>]

NotStarted ==
    [pc |-> "idle", rounded |-> <<>>, debtors |-> <<>>, creditors |-> <<>>,
     i |-> 0, j |-> 0, transactions |-> <<>>]

LoopGuard(st) == st.i < Len(st.debtors) /\ st.j < Len(st.creditors)

\* a slip: the creditor's whole remainder, not the smaller of the two
SettleAmountWholeCredit(debtor, creditor) == creditor.amount

SettleAmount(debtor, creditor) == MinR(AbsR(debtor.amount), creditor.amount)

\* one iteration of the while loop: the states it can end in
LoopBody(st) ==
    LET debtor == st.debtors[st.i + 1]
        creditor == st.creditors[st.j + 1]
        amount == SettleAmount(debtor, creditor)
        d_left == Add(debtor.amount, amount)
        c_left == Sub(creditor.amount, amount)
    IN  {[st EXCEPT !.debtors[st.i + 1].amount = d_left,
                    !.creditors[st.j + 1].amount = c_left,
                    !.i = IF adv_i THEN @ + 1 ELSE @,
                    !.j = IF adv_j THEN @ + 1 ELSE @,
                    !.transactions =
                        Append(@, Transaction(debtor.id, creditor.id, amount))] :
            adv_i \in BelowCent(AbsR(d_left)), adv_j \in BelowCent(c_left)}

LoopReturn(st) == [st EXCEPT !.pc = "done"]

RECURSIVE RunLoop(_)
RunLoop(st) ==
    IF LoopGuard(st) THEN UNION {RunLoop(nxt) : nxt \in LoopBody(st)}
    ELSE {LoopReturn(st)}

\* every way the whole call can run on a balance map, as finished loops
SimplifyRuns(bal) ==
    UNION {RunLoop(LoopInit(rounded)) : rounded \in RoundedMaps(bal)}

\* the lists of (payer, receiver, amount) the call can return
simplify_debts(bal) == {run.transactions : run \in SimplifyRuns(bal)}

-----------------------------------------------------------------------------
(* Inputs the operations are exercised with.                               *)

MemberIds == 1..NumMembers
ExpenseIds == 1..MaxExpenses
\* the ids a caller may name: those of the rows, and one that no row has
ExpenseIdArgs == 1..(MaxExpenses + 1)
SplitTypes == {"Equal", "Unequal", "Percentage", "Shares"}
Descriptions == {"", "Dinner"}
Amounts == {Rat(40, 1), Rat(10, 1)}
AmountTexts == {Num(a) : a \in Amounts} \cup {Blank}

\* what the user types into a member's field, by split type; a minus sign
\* is a number to float() like any other
FieldValues(split_type) ==
    CASE split_type = "Unequal" -> {Rat(20, 1), Rat(399, 20)}
      [] split_type = "Percentage" -> {Rat(50, 1), Rat(999, 20)}
      [] OTHER -> {Rat(1, 1), Rat(2, 1), Rat(-1, 1)}
FieldTexts(split_type) == {Num(v) : v \in FieldValues(split_type)} \cup {Blank, Garbage}

\* every dict with keys among the ids K and values in V
Dicts(K, V) == UNION {[D -> V] : D \in SUBSET K}

\* split_inputs a direct caller of the engine passes
ApiSplitInputs(split_type) ==
    IF split_type = "Equal" THEN Dicts(MemberIds, BOOLEAN)
    ELSE IF split_type = "Shares"
    THEN Dicts(MemberIds, FieldValues(split_type) \cup {Rat(-1, 1)})
    ELSE Dicts(MemberIds, FieldValues(split_type))

SettlementAmounts == {Rat(15, 1)}

\* balances simplify_debts is called with: settled, one cent and two cents
\* either way, a half cent below the debtor threshold, a debt one cent
\* larger than a credit, and whole amounts
BalanceValues ==
    {Rat(-20, 1), Rat(-1001, 100), Rat(-10, 1), Rat(-3, 200), Rat(-1, 100),
     Zero, Rat(1, 50), Rat(10, 1), Rat(30, 1)}

-----------------------------------------------------------------------------
(* What the most recent call of the engine was: the function, its          *)
(* arguments and its outcome ("ok" or the exception raised).               *)

-----------------------------------------------------------------------------
(* The budget of the group (src/logic.py, budget functions).  A budget is  *)
(* None or a float; an alert is named by the text that does not vary.      *)

None == [none |-> TRUE, value |-> Zero]
Some(x) == [none |-> FALSE, value |-> x]

\* the truth value Python gives a budget: None and 0.0 are false
Truthy(b) == ~b.none /\ b.value # Zero

\* a slip: "if budget_amount", without "and budget_amount > 0"
HasBudgetIfTruthy(b) == Truthy(b)

\* if budget_amount and budget_amount > 0
HasBudget(b) == Truthy(b) /\ Gt(b.value, Zero)

\* sum(expense.amount for expense in expenses)
calculate_total_spent(exps, g) ==
    LET es == ExpensesOf(exps, g)
    IN  SumSeq([k \in 1..Len(es) |-> es[k].amount])

Fifty == Rat(50, 1)
Eighty == Rat(80, 1)

\* a slip: a threshold counts only once it is passed
ReachedOnlyAbove(percentage_used, threshold) == Gt(percentage_used, threshold)

\* percentage_used >= threshold
Reached(percentage_used, threshold) == Le(threshold, percentage_used)

\* the if / elif / elif chain over the thresholds
Alerts(percentage_used) ==
    IF Reached(percentage_used, Hundred) THEN <<"Budget exceeded">>
    ELSE IF Reached(percentage_used, Eighty) THEN <<"80% of budget used - nearing limit">>
    ELSE IF Reached(percentage_used, Fifty) THEN <<"50% of budget used">>
    ELSE <<>>

Status(g, total_spent, budget, percentage_used, alerts) ==
    [group_id |-> g, total_spent |-> total_spent, budget_amount |-> budget,
     percentage_used |-> percentage_used, alerts |-> alerts]

\* the dict returned for group g, with the group asked for
get_budget_status(exps, budget, g) ==
    IF g # TheGroup THEN Status(g, Zero, None, Zero, <<>>)
    ELSE LET total_spent == calculate_total_spent(exps, g)
         IN  IF HasBudget(budget)
             THEN LET percentage_used == Mul(Div(total_spent, budget.value), Hundred)
                  IN  Status(g, total_spent, budget, percentage_used,
                             Alerts(percentage_used))
             ELSE Status(g, total_spent, budget, Zero, <<>>)

\* budgets a caller passes to update_group_budget
BudgetAmounts ==
    {Rat(-10, 1), Zero, Rat(10, 1), Rat(20, 1), Rat(40, 1), Rat(45, 1), Rat(50, 1),
     Rat(60, 1), Rat(80, 1), Rat(100, 1)}
BudgetArgs == {None} \cup {Some(b) : b \in BudgetAmounts}

\* what the budget field of the banner's sheet can hold
BudgetTexts == {Num(b) : b \in BudgetAmounts} \cup {Blank, Garbage}

\* what the budget_amount column of a Group row can hold when the status is
\* asked for: NULL or any float
StoredBudgets == {None, Some(Zero), Some(Rat(-10, 1)), Some(Rat(50, 1))}

Call(op, result, eid, amount, payer, receiver, split_type, split_inputs) ==
    [op |-> op, result |-> result, expense_id |-> eid, amount |-> amount,
     payer_member_id |-> payer, receiver_member_id |-> receiver,
     split_type |-> split_type, split_inputs |-> split_inputs]

NoCall == Call("none", "ok", 0, Zero, 0, 0, "", <<>>)

\* a second session with no screen of the group open and no call running,
\* and no vote cast
NoScreen == [screen |-> "none", members |-> {}, plan |-> <<>>]
NotReading == [pc |-> "idle", rows |-> <<>>, seen |-> {}, result |-> <<>>]
VoteCall(result, poll_id, option_id, member_id) ==
    [result |-> result, poll_id |-> poll_id, option_id |-> option_id,
     member_id |-> member_id]
NoVotes == [rows |-> <<>>, call |-> VoteCall("none", 0, 0, 0)]
Alone ==
    /\ other = NoScreen
    /\ reader = NotReading
    /\ votes = NoVotes

\* A group of one to NumMembers members with no expense yet, its Balances
\* tab drawn.
Init ==
    /\ members \in {1..n : n \in 1..NumMembers}
    /\ expenses = <<>>
    /\ settlements = <<>>
    /\ last = NoCall
    /\ balances = calculate_member_balances(members, expenses, settlements, TheGroup)
    /\ loop \in SimplifyRuns(balances)
    /\ budget_amount = None
    /\ status = get_budget_status(expenses, budget_amount, TheGroup)
    /\ Alone

-----------------------------------------------------------------------------
(* The engine's write operations (src/logic.py), on the ledger.            *)

\* the id the database gives the next Expense row
NextExpenseId ==
    IF DOMAIN expenses = {} THEN 1
    ELSE (CHOOSE e \in DOMAIN expenses : \A f \in DOMAIN expenses : f <= e) + 1

\* With no Group row for group_id the lookup gives None and group.members
\* raises AttributeError: the call ends before db.commit(), so the Expense
\* row it added is not stored.
create_expense(group_id, payer_member_id, description, amount, split_type, split_inputs) ==
    IF group_id # TheGroup
    THEN /\ last' = Call("create_expense", "AttributeError", 0, Zero, 0, 0, "", <<>>)
         /\ UNCHANGED ledger
    ELSE LET id == NextExpenseId
             splits == ComputeSplits(MemberList, amount, split_type, split_inputs)
         IN  /\ id \in ExpenseIds
             /\ expenses' = expenses @@
                    (id :> ExpenseRow(group_id, description, amount, payer_member_id, splits))
             /\ last' = Call("create_expense", "ok", id, amount, payer_member_id, 0,
                             split_type, split_inputs)
             /\ UNCHANGED <<members, settlements>>

\* a slip: the old splits are not deleted, the new ones come on top
update_expenseKeepingSplits(expense_id, description, amount, payer_member_id, split_type, split_inputs) ==
    IF expense_id \notin DOMAIN expenses
    THEN /\ last' = Call("update_expense", "ValueError", expense_id, Zero, 0, 0, "", <<>>)
         /\ UNCHANGED ledger
    ELSE LET splits == ComputeSplits(MemberList, amount, split_type, split_inputs)
         IN  /\ expenses' = [expenses EXCEPT ![expense_id] =
                    ExpenseRow(@.group_id, description, amount, payer_member_id,
                               @.splits \o splits)]
             /\ last' = Call("update_expense", "ok", expense_id, amount,
                             payer_member_id, 0, split_type, split_inputs)
             /\ UNCHANGED <<members, settlements>>

\* a slip: an id no expense has makes a new expense
update_expenseOrInsert(expense_id, description, amount, payer_member_id, split_type, split_inputs) ==
    LET splits == ComputeSplits(MemberList, amount, split_type, split_inputs)
    IN  /\ expenses' = [e \in DOMAIN expenses \cup {expense_id} |->
               ExpenseRow(TheGroup, description, amount, payer_member_id, splits)]
        /\ last' = Call("update_expense",
                        IF expense_id \in DOMAIN expenses THEN "ok" ELSE "ValueError",
                        expense_id, amount, payer_member_id, 0, split_type, split_inputs)
        /\ UNCHANGED <<members, settlements>>

update_expense(expense_id, description, amount, payer_member_id, split_type, split_inputs) ==
    IF expense_id \notin DOMAIN expenses
    THEN /\ last' = Call("update_expense", "ValueError", expense_id, Zero, 0, 0, "", <<>>)
         /\ UNCHANGED ledger
    ELSE LET splits == ComputeSplits(MemberList, amount, split_type, split_inputs)
         IN  /\ expenses' = [expenses EXCEPT ![expense_id] =
                    ExpenseRow(@.group_id, description, amount, payer_member_id, splits)]
             /\ last' = Call("update_expense", "ok", expense_id, amount,
                             payer_member_id, 0, split_type, split_inputs)
             /\ UNCHANGED <<members, settlements>>

\* a slip: the row stays
WithoutExpenseKept(exps, expense_id) == exps

\* db.delete(expense): the row goes, and with it its splits (cascade);
\* nothing happens for an id no expense has
WithoutExpense(exps, expense_id) == [e \in DOMAIN exps \ {expense_id} |-> exps[e]]

delete_expense(expense_id) ==
    /\ expenses' = WithoutExpense(expenses, expense_id)
    /\ last' = Call("delete_expense", "ok", expense_id, Zero, 0, 0, "", <<>>)
    /\ UNCHANGED <<members, settlements>>

\* db.add(settlement); db.commit()
StoreSettlement(group_id, payer_member_id, receiver_member_id, amount) ==
    /\ settlements' = Append(settlements,
           SettlementRow(group_id, payer_member_id, receiver_member_id, amount))
    /\ last' = Call("record_settlement", "ok", 0, amount, payer_member_id,
                    receiver_member_id, "", <<>>)
    /\ UNCHANGED <<members, expenses>>

record_settlement(group_id, payer_member_id, receiver_member_id, amount) ==
    /\ Len(settlements) < MaxSettlements
    /\ StoreSettlement(group_id, payer_member_id, receiver_member_id, amount)

-----------------------------------------------------------------------------
(* The engine called directly, as src/test_flow.py does: any arguments.    *)

ApiCreateExpense ==
    /\ \E group_id \in GroupIds, payer_member_id \in MemberIds, amount \in Amounts,
          split_type \in SplitTypes :
           \E split_inputs \in ApiSplitInputs(split_type) :
               create_expense(group_id, payer_member_id, "Lunch", amount,
                              split_type, split_inputs)
    /\ UNCHANGED <<balances, loop, budget_amount, status, elsewhere>>

ApiUpdateExpense ==
    /\ \E expense_id \in ExpenseIdArgs, payer_member_id \in MemberIds,
          amount \in Amounts, split_type \in SplitTypes :
           \E split_inputs \in ApiSplitInputs(split_type) :
               update_expense(expense_id, "Lunch", amount, payer_member_id,
                              split_type, split_inputs)
    /\ UNCHANGED <<balances, loop, budget_amount, status, elsewhere>>

ApiDeleteExpense ==
    /\ \E expense_id \in ExpenseIds : delete_expense(expense_id)
    /\ UNCHANGED <<balances, loop, budget_amount, status, elsewhere>>

ApiRecordSettlement ==
    /\ \E group_id \in GroupIds, payer_member_id \in MemberIds,
          receiver_member_id \in MemberIds, amount \in SettlementAmounts :
           record_settlement(group_id, payer_member_id, receiver_member_id, amount)
    /\ UNCHANGED <<balances, loop, budget_amount, status, elsewhere>>

\* create_expense as src/test_flow.py calls it: an Equal split among all
\* members, given as no selection or as every member selected
ApiCreateEqualExpense ==
    /\ \E payer_member_id \in members, amount \in Amounts,
          split_inputs \in {<<>>, [m \in members |-> TRUE]} :
           create_expense(TheGroup, payer_member_id, "Lunch", amount, "Equal",
                          split_inputs)
    /\ UNCHANGED <<balances, loop, budget_amount, status, elsewhere>>

NextApi ==
    \/ ApiCreateExpense
    \/ ApiUpdateExpense
    \/ ApiDeleteExpense
    \/ ApiRecordSettlement

SpecApi == Init /\ [][NextApi]_vars

-----------------------------------------------------------------------------
(* The add and edit expense screens (src/add_expense_view.py,              *)
(* src/edit_expense_view.py): one control per member, a checkbox for       *)
(* Equal and a text field otherwise.  A handler that finds the form        *)
(* invalid shows a message and returns: nothing is stored.                 *)

\* The form is drawn with the members the group had when the screen was
\* opened (listed): its controls, and what the handler makes of them.
ControlsOf(listed, split_type) ==
    IF split_type = "Equal" THEN [listed -> BOOLEAN]
    ELSE [listed -> FieldTexts(split_type)]

\* for m_id, control in split_input_controls.items(): total_entered += val
TotalEnteredOf(listed, controls) ==
    LET ml == SortedIds(listed)
    IN  SumSeq([k \in 1..Len(ml) |-> Float(OrZero(controls[ml[k]]))])

Tolerance == Tenth

\* the message the handler puts in error_text before it returns, or "ok"
FormErrorOf(listed, amount_text, description, split_type, controls, amount_error) ==
    IF ~ParsesAsFloat(amount_text) THEN amount_error
    ELSE IF description = "" THEN "Please enter a description"
    ELSE IF split_type = "Equal"
    THEN IF Cardinality({m \in listed : controls[m]}) = 0
         THEN "Please select at least one member"
         ELSE "ok"
    ELSE IF \E m \in listed : ~ParsesAsFloat(OrZero(controls[m]))
    THEN "Invalid value for member"
    ELSE IF /\ split_type = "Unequal"
            /\ Gt(AbsR(Sub(TotalEnteredOf(listed, controls), Float(amount_text))),
                  Tolerance)
    THEN "Total split does not match expense amount"
    ELSE IF /\ split_type = "Percentage"
            /\ Gt(AbsR(Sub(TotalEnteredOf(listed, controls), Hundred)), Tolerance)
    THEN "Total percentage must be 100%"
    ELSE "ok"

\* split_data as the handler hands it to the engine
SplitDataOf(listed, split_type, controls) ==
    IF split_type = "Equal" THEN controls
    ELSE [m \in listed |-> Float(OrZero(controls[m]))]

\* the same for a screen opened just now, by the one session at work
Controls(split_type) == ControlsOf(members, split_type)
TotalEntered(controls) == TotalEnteredOf(members, controls)
FormError(amount_text, description, split_type, controls, amount_error) ==
    FormErrorOf(members, amount_text, description, split_type, controls, amount_error)
SplitData(split_type, controls) == SplitDataOf(members, split_type, controls)

\* page.go("/groups/<id>") draws the group screen again: its Balances tab
\* recomputes the balances and the settlement plan from the stored rows,
\* and its budget banner asks for the budget status
group_detail_view ==
    /\ balances' = calculate_member_balances(members', expenses', settlements', TheGroup)
    /\ loop' \in SimplifyRuns(balances')
    /\ status' = get_budget_status(expenses', budget_amount', TheGroup)

on_submit(amount_text, description, payer_id, split_type, controls) ==
    /\ FormError(amount_text, description, split_type, controls,
                 "Invalid total amount") = "ok"
    /\ create_expense(TheGroup, payer_id, description, Float(amount_text),
                      split_type, SplitData(split_type, controls))
    /\ UNCHANGED <<budget_amount, elsewhere>>
    /\ group_detail_view

\* the edit screen exists only for an expense found when it was opened
on_save(expense_id, amount_text, description, payer_id, split_type, controls) ==
    /\ expense_id \in DOMAIN expenses
    /\ FormError(amount_text, description, split_type, controls,
                 "Invalid amount") = "ok"
    /\ update_expense(expense_id, description, Float(amount_text), payer_id,
                      split_type, SplitData(split_type, controls))
    /\ UNCHANGED <<budget_amount, elsewhere>>
    /\ group_detail_view

confirm_delete(expense_id) ==
    /\ expense_id \in DOMAIN expenses
    /\ delete_expense(expense_id)
    /\ UNCHANGED <<budget_amount, elsewhere>>
    /\ group_detail_view

\* one "record payment" button per transaction of the plan on the screen
on_record_payment(p_id, r_id, amt) ==
    /\ record_settlement(TheGroup, p_id, r_id, amt)
    /\ UNCHANGED <<budget_amount, elsewhere>>
    /\ group_detail_view

AddExpense ==
    \E amount_text \in AmountTexts, description \in Descriptions, payer_id \in members,
       split_type \in SplitTypes :
        \E controls \in Controls(split_type) :
            on_submit(amount_text, description, payer_id, split_type, controls)

EditExpense ==
    \E expense_id \in ExpenseIds, amount_text \in AmountTexts,
       description \in Descriptions, payer_id \in members, split_type \in SplitTypes :
        \E controls \in Controls(split_type) :
            on_save(expense_id, amount_text, description, payer_id, split_type, controls)

DeleteExpense == \E expense_id \in ExpenseIds : confirm_delete(expense_id)

RecordPayment ==
    \E k \in 1..Len(loop.transactions) :
        on_record_payment(loop.transactions[k].payer, loop.transactions[k].receiver,
                          loop.transactions[k].amount)

Next ==
    \/ AddExpense
    \/ EditExpense
    \/ DeleteExpense
    \/ RecordPayment

\* one user working through the screens of the group
Spec == Init /\ [][Next]_vars

-----------------------------------------------------------------------------
(* The members screen (src/member_management_view.py).  The delete button  *)
(* of a member is shown when the group has another member and no expense   *)
(* names the member as payer.  db.delete(member) sets member_id of the     *)
(* member's ExpenseSplit rows to NULL, which the column does not allow:    *)
(* with such a row the commit fails and the handler only shows the error.  *)
(* Settlement rows have no relationship to the member and keep its id.     *)

can_delete(member_id) ==
    /\ Cardinality(members) > 1
    /\ ~\E e \in DOMAIN expenses : expenses[e].payer_member_id = member_id

\* a slip: the member's settlements go with the member
delete_memberWithSettlements(member_id) ==
    /\ can_delete(member_id)
    /\ ~\E e \in DOMAIN expenses :
           \E k \in DOMAIN expenses[e].splits :
               expenses[e].splits[k].member_id = member_id
    /\ members' = members \ {member_id}
    /\ settlements' = SelectSeq(settlements,
           LAMBDA row : row.payer_member_id # member_id /\ row.receiver_member_id # member_id)
    /\ UNCHANGED <<expenses, last>>

delete_member(member_id) ==
    /\ can_delete(member_id)
    /\ ~\E e \in DOMAIN expenses :
           \E k \in DOMAIN expenses[e].splits :
               expenses[e].splits[k].member_id = member_id
    /\ members' = members \ {member_id}
    /\ UNCHANGED <<expenses, settlements, last>>

\* the member removed, and the way back to the group screen
RemoveMember ==
    \E member_id \in members :
        /\ delete_member(member_id)
        /\ UNCHANGED <<budget_amount, elsewhere>>
        /\ group_detail_view

NextMembers ==
    \/ AddExpense
    \/ EditExpense
    \/ DeleteExpense
    \/ RecordPayment
    \/ RemoveMember

\* the screens of the group, the members screen among them
SpecMembers == Init /\ [][NextMembers]_vars

-----------------------------------------------------------------------------
(* Two browser sessions on the group.  The app is served to browsers     *)
(* (src/main.py: ft.app(view=ft.WEB_BROWSER)); every session runs the      *)
(* handlers on the one database and keeps the screen it drew.  The first   *)
(* session is the one of the screens above; "other" is what the second     *)
(* session has on its screen.                                              *)

\* the group screen as drawn from the rows given
GroupScreens(mem, exps, setts) ==
    {[screen |-> "group", members |-> mem, plan |-> plan] :
        plan \in simplify_debts(calculate_member_balances(mem, exps, setts, TheGroup))}

\* the second session opens the add-expense screen: the payer list and the
\* split controls are built from group.members as they are now
OtherOpenAddExpense ==
    /\ other' = [screen |-> "add_expense", members |-> members, plan |-> <<>>]
    /\ UNCHANGED <<ledger, last, balances, loop, budget_amount, status, reader, votes>>

\* on_submit of that screen, and the way back to its group screen
OtherSubmit ==
    /\ other.screen = "add_expense"
    /\ \E amount_text \in AmountTexts, description \in Descriptions,
          payer_id \in other.members, split_type \in SplitTypes :
           \E controls \in ControlsOf(other.members, split_type) :
               /\ FormErrorOf(other.members, amount_text, description, split_type,
                              controls, "Invalid total amount") = "ok"
               /\ create_expense(TheGroup, payer_id, description, Float(amount_text),
                                 split_type,
                                 SplitDataOf(other.members, split_type, controls))
    /\ other' \in GroupScreens(members', expenses', settlements')
    /\ UNCHANGED <<balances, loop, budget_amount, status, reader, votes>>

\* the second session opens the group screen
OtherOpenGroup ==
    /\ other' \in GroupScreens(members, expenses, settlements)
    /\ UNCHANGED <<ledger, last, balances, loop, budget_amount, status, reader, votes>>

\* settlements the sessions record between them
MaxSessionSettlements == 2

\* a "record payment" button of the plan on the second session's screen
OtherRecordPayment ==
    /\ other.screen = "group"
    /\ Len(settlements) < MaxSessionSettlements
    /\ \E k \in 1..Len(other.plan) :
           StoreSettlement(TheGroup, other.plan[k].payer, other.plan[k].receiver,
                           other.plan[k].amount)
    /\ other' \in GroupScreens(members', expenses', settlements')
    /\ UNCHANGED <<balances, loop, budget_amount, status, reader, votes>>

\* the first session comes back to the group screen, which is drawn anew
ReopenGroup ==
    /\ UNCHANGED <<ledger, last, budget_amount, elsewhere>>
    /\ group_detail_view

\* the same while the group has no settlement
OtherRecordFirstPayment ==
    /\ Len(settlements) < MaxSettlements
    /\ OtherRecordPayment

NextSessions ==
    \/ ReopenGroup
    \/ DeleteExpense
    \/ RecordPayment
    \/ RemoveMember
    \/ OtherOpenAddExpense
    \/ OtherSubmit
    \/ OtherOpenGroup
    \/ OtherRecordFirstPayment

SpecSessions == Init /\ [][NextSessions]_vars

\* Two sessions that only look at the Balances tab of a group with one
\* expense and record payments of the plan they see.
RecorderAmounts == Amounts \cup {Rat(200, 1), Rat(90, 1), Rat(1, 20)}

InitRecorders ==
    /\ members = 1..NumMembers
    /\ \E payer_member_id \in members, amount \in RecorderAmounts,
          selected \in (SUBSET members) \ {{}} :
           expenses = (1 :> ExpenseRow(TheGroup, "Lunch", amount, payer_member_id,
                           ComputeSplits(MemberList, amount, "Equal",
                                         [m \in members |-> m \in selected])))
    /\ settlements = <<>>
    /\ last = NoCall
    /\ balances = calculate_member_balances(members, expenses, settlements, TheGroup)
    /\ loop \in SimplifyRuns(balances)
    /\ budget_amount = None
    /\ status = get_budget_status(expenses, budget_amount, TheGroup)
    /\ Alone

NextRecorders ==
    \/ ReopenGroup
    \/ RecordPayment
    \/ OtherOpenGroup
    \/ OtherRecordPayment

SpecRecorders == InitRecorders /\ [][NextRecorders]_vars

-----------------------------------------------------------------------------
(* calculate_member_balances running in one session while another session  *)
(* edits an expense.  The call reads with three statements: the Expense    *)
(* rows, then the splits of each row it holds (exp.splits is loaded when   *)
(* first touched), then the settlements.  A statement that only reads      *)
(* opens no transaction on the connection, so each sees what is committed  *)
(* at its own moment.  update_expense writes in one transaction.           *)

\* edits committed while one call is reading
MaxEdits == 2

\* what the call holds after "for split in exp.splits": the rows it has,
\* each with the splits stored for its id now
WithSplitsNow(rows, exps) ==
    [e \in DOMAIN rows |->
        [rows[e] EXCEPT !.splits = IF e \in DOMAIN exps THEN exps[e].splits ELSE <<>>]]

\* group.members and db.query(Expense)...all()
ReadExpenses ==
    /\ reader.pc \in {"idle", "done"}
    /\ reader' = [pc |-> "splits", rows |-> expenses, seen |-> {expenses},
                  result |-> <<>>]
    /\ UNCHANGED <<ledger, last, balances, loop, budget_amount, status, other, votes>>

\* exp.splits for each row, db.query(Settlement)...all(), return balances
ReadSplits ==
    /\ reader.pc = "splits"
    /\ LET rows == WithSplitsNow(reader.rows, expenses)
       IN  reader' = [reader EXCEPT
               !.pc = "done",
               !.rows = rows,
               !.result = calculate_member_balances(members, rows, settlements, TheGroup)]
    /\ UNCHANGED <<ledger, last, balances, loop, budget_amount, status, other, votes>>

\* update_expense in another session; reader.seen collects the committed
\* states of the expenses there are while the call reads
WriterUpdateExpense ==
    /\ reader.pc = "splits" => Cardinality(reader.seen) <= MaxEdits
    /\ \E expense_id \in ExpenseIdArgs, payer_member_id \in members,
          amount \in Amounts, split_inputs \in [members -> BOOLEAN] :
           update_expense(expense_id, "Lunch", amount, payer_member_id,
                          "Equal", split_inputs)
    /\ reader' = IF reader.pc = "splits"
                 THEN [reader EXCEPT !.seen = @ \cup {expenses'}]
                 ELSE reader
    /\ UNCHANGED <<balances, loop, budget_amount, status, other, votes>>

NextReaders ==
    \/ ApiCreateEqualExpense
    \/ WriterUpdateExpense
    \/ ReadExpenses
    \/ ReadSplits

SpecReaders == Init /\ [][NextReaders]_vars

-----------------------------------------------------------------------------
(* Polls (src/logic.py, vote_poll).  The group has two polls; votes.rows   *)
(* is the poll_votes table in the order of the rows' ids, votes.call the   *)
(* latest vote_poll call and how it ended.                                 *)

\* poll 1 with options 1 and 2, poll 2 with option 3
PollOptions == (1 :> {1, 2}) @@ (2 :> {3})
\* the ids a caller may name: those of the rows, and one that no row has
PollIdArgs == {1, 2, 3}
OptionIdArgs == {1, 2, 3, 4}

PollVote(poll_id, option_id, member_id) ==
    [poll_id |-> poll_id, option_id |-> option_id, member_id |-> member_id]

\* the rows of the member's votes on the poll
VotesOf(rows, poll_id, member_id) ==
    {k \in DOMAIN rows : rows[k].poll_id = poll_id /\ rows[k].member_id = member_id}

\* a slip: a new row for every vote
CastVoteAlwaysNew(rows, poll_id, option_id, member_id) ==
    Append(rows, PollVote(poll_id, option_id, member_id))

\* existing_vote.option_id = option_id, or db.add(vote)
CastVote(rows, poll_id, option_id, member_id) ==
    LET existing == VotesOf(rows, poll_id, member_id)
    IN  IF existing # {}
        THEN LET first == CHOOSE k \in existing : \A j \in existing : k <= j
             IN  [rows EXCEPT ![first].option_id = option_id]
        ELSE Append(rows, PollVote(poll_id, option_id, member_id))

vote_poll(poll_id, option_id, member_id) ==
    IF poll_id \notin DOMAIN PollOptions
    THEN votes' = [votes EXCEPT
             !.call = VoteCall("Poll not found", poll_id, option_id, member_id)]
    ELSE IF option_id \notin PollOptions[poll_id]
    THEN votes' = [votes EXCEPT
             !.call = VoteCall("Option not found for this poll", poll_id, option_id,
                               member_id)]
    ELSE votes' = [rows |-> CastVote(votes.rows, poll_id, option_id, member_id),
                   call |-> VoteCall("ok", poll_id, option_id, member_id)]

ApiVotePoll ==
    /\ \E poll_id \in PollIdArgs, option_id \in OptionIdArgs, member_id \in MemberIds :
           vote_poll(poll_id, option_id, member_id)
    /\ UNCHANGED <<ledger, last, balances, loop, budget_amount, status, other, reader>>

NextPolls == ApiVotePoll

SpecPolls == Init /\ [][NextPolls]_vars

-----------------------------------------------------------------------------
(* The budget: the engine's two calls with any arguments, and the sheet of *)
(* the budget banner (src/budget_banner.py).                               *)

update_group_budget(group_id, amount) ==
    IF group_id # TheGroup
    THEN /\ last' = Call("update_group_budget", "ValueError", 0, Zero, 0, 0, "", <<>>)
         /\ UNCHANGED budget_amount
    ELSE /\ budget_amount' = IF Truthy(amount) /\ Gt(amount.value, Zero)
                             THEN amount ELSE None
         /\ last' = Call("update_group_budget", "ok", 0, Zero, 0, 0, "", <<>>)

\* the sheet's Save button; a text it rejects only shows a message
save_budget(text) ==
    /\ text.kind # "blank"
    /\ ParsesAsFloat(text)
    /\ ~Le(Float(text), Zero)
    /\ update_group_budget(TheGroup, Some(Float(text)))
    /\ UNCHANGED <<ledger, elsewhere>>
    /\ group_detail_view

InitBudget ==
    /\ members \in {1..n : n \in 1..NumMembers}
    /\ expenses = <<>>
    /\ settlements = <<>>
    /\ last = NoCall
    /\ balances = calculate_member_balances(members, expenses, settlements, TheGroup)
    /\ loop \in SimplifyRuns(balances)
    /\ budget_amount \in StoredBudgets
    /\ status = get_budget_status(expenses, budget_amount, TheGroup)
    /\ Alone

ApiUpdateGroupBudget ==
    /\ \E group_id \in GroupIds, amount \in BudgetArgs :
           update_group_budget(group_id, amount)
    /\ UNCHANGED <<ledger, balances, loop, status, elsewhere>>

ApiGetBudgetStatus ==
    /\ \E group_id \in GroupIds :
           status' = get_budget_status(expenses, budget_amount, group_id)
    /\ UNCHANGED <<ledger, last, balances, loop, budget_amount, elsewhere>>

SaveBudget == \E text \in BudgetTexts : save_budget(text)

NextBudget ==
    \/ ApiCreateEqualExpense
    \/ ApiDeleteExpense
    \/ ApiUpdateGroupBudget
    \/ ApiGetBudgetStatus
    \/ SaveBudget

SpecBudget == InitBudget /\ [][NextBudget]_vars

-----------------------------------------------------------------------------
(* simplify_debts on its own, one loop iteration at a time, called with    *)
(* any balance map of up to MaxBalances members.                           *)

InitSimplify ==
    /\ members \in {1..n : n \in 0..MaxBalances}
    /\ expenses = <<>>
    /\ settlements = <<>>
    /\ last = NoCall
    /\ balances \in [members -> BalanceValues]
    /\ loop = NotStarted
    /\ budget_amount = None
    /\ status = get_budget_status(expenses, budget_amount, TheGroup)
    /\ Alone

\* the first pass and the two sorts
SimplifyEnter ==
    /\ loop.pc = "idle"
    /\ loop' \in {LoopInit(rounded) : rounded \in RoundedMaps(balances)}
    /\ UNCHANGED <<members, expenses, settlements, last, balances, budget_amount, status,
                 elsewhere>>

SimplifyIterate ==
    /\ loop.pc = "loop"
    /\ LoopGuard(loop)
    /\ loop' \in LoopBody(loop)
    /\ UNCHANGED <<members, expenses, settlements, last, balances, budget_amount, status,
                 elsewhere>>

SimplifyReturn ==
    /\ loop.pc = "loop"
    /\ ~LoopGuard(loop)
    /\ loop' = LoopReturn(loop)
    /\ UNCHANGED <<members, expenses, settlements, last, balances, budget_amount, status,
                 elsewhere>>

NextSimplify ==
    \/ SimplifyEnter
    \/ SimplifyIterate
    \/ SimplifyReturn

SpecSimplify == InitSimplify /\ [][NextSimplify]_vars

\* The same with balances that need not be finite: an amount field takes
\* "inf" (float("inf")), and an expense of that amount gives its payer the
\* balance inf and a member who owes it -inf.
FloatValues == {MinusInf, Rat(-10, 1), Zero, Rat(10, 1), Inf}

\* iterations the model follows a call for
MaxIterations == 6

InitSimplifyFloats ==
    /\ members \in {1..n : n \in 0..MaxBalances}
    /\ expenses = <<>>
    /\ settlements = <<>>
    /\ last = NoCall
    /\ balances \in [members -> FloatValues]
    /\ loop = NotStarted
    /\ budget_amount = None
    /\ status = get_budget_status(expenses, budget_amount, TheGroup)
    /\ Alone

SimplifyIterateFloats ==
    /\ Len(loop.transactions) < MaxIterations
    /\ SimplifyIterate

NextSimplifyFloats ==
    \/ SimplifyEnter
    \/ SimplifyIterateFloats
    \/ SimplifyReturn

SpecSimplifyFloats == InitSimplifyFloats /\ [][NextSimplifyFloats]_vars

-----------------------------------------------------------------------------
(* The flow of src/test_flow.py in a group of two to MaxBalances members:  *)
(* one expense split Equal among all, then calculate_member_balances, then *)
(* simplify_debts on the map it returned.                                  *)

ScenarioAmounts == {Rat(200, 1), Rat(90, 1), Rat(10, 1), Rat(1, 20)}

InitScenario ==
    /\ members \in {1..n : n \in 2..MaxBalances}
    /\ expenses = <<>>
    /\ settlements = <<>>
    /\ last = NoCall
    /\ balances = <<>>
    /\ loop = NotStarted
    /\ budget_amount = None
    /\ status = get_budget_status(expenses, budget_amount, TheGroup)
    /\ Alone

ScenarioExpense ==
    /\ \E payer_member_id \in members, amount \in ScenarioAmounts,
          split_inputs \in {<<>>, [m \in members |-> TRUE]} :
           create_expense(TheGroup, payer_member_id, "Lunch", amount, "Equal",
                          split_inputs)
    /\ UNCHANGED <<balances, loop, budget_amount, status, elsewhere>>

\* balances = calculate_member_balances(db, group.id); the map is new, so
\* no run of simplify_debts belongs to it yet
ApiCalculateBalances ==
    /\ balances' = calculate_member_balances(members, expenses, settlements, TheGroup)
    /\ loop' = NotStarted
    /\ UNCHANGED <<ledger, last, budget_amount, status, elsewhere>>

NextScenario ==
    \/ ScenarioExpense
    \/ ApiCalculateBalances
    \/ SimplifyEnter
    \/ SimplifyIterate
    \/ SimplifyReturn

SpecScenario == InitScenario /\ [][NextScenario]_vars

\* The same flow followed further: an expense split Unequal, the plan for
\* its balances, and the plan's transactions recorded one after another
\* as the Balances tab's "Record payment" does; then the balances and the
\* plan again.
PlanAmounts == {Rat(1609, 200), Rat(10, 1)}
PlanFields == {Zero, Rat(1, 50), Rat(803, 100)}

PlanExpense ==
    /\ \E payer_member_id \in members, amount \in PlanAmounts,
          split_inputs \in [members -> PlanFields] :
           create_expense(TheGroup, payer_member_id, "Lunch", amount, "Unequal",
                          split_inputs)
    /\ UNCHANGED <<balances, loop, budget_amount, status, elsewhere>>

\* the next transaction of the plan that is not recorded yet
PlanRecord ==
    /\ loop.pc = "done"
    /\ Len(settlements) < Len(loop.transactions)
    /\ LET t == loop.transactions[Len(settlements) + 1]
       IN  record_settlement(TheGroup, t.payer, t.receiver, t.amount)
    /\ UNCHANGED <<balances, loop, budget_amount, status, elsewhere>>

NextFollowPlan ==
    \/ PlanExpense
    \/ ApiCalculateBalances
    \/ SimplifyEnter
    \/ SimplifyIterate
    \/ SimplifyReturn
    \/ PlanRecord

SpecFollowPlan == InitScenario /\ [][NextFollowPlan]_vars

-----------------------------------------------------------------------------
(* Properties.  The sums below are taken over the stored rows directly.    *)

SumOfBalances(bal) ==
    LET ids == SortedIds(DOMAIN bal)
    IN  SumSeq([k \in 1..Len(ids) |-> bal[ids[k]]])

SplitTotal(e) == SumSeq([k \in 1..Len(e.splits) |-> e.splits[k].amount_owed])

\* what the stored expenses leave unallocated: amount minus splits, summed
Unallocated ==
    LET es == ExpensesOf(expenses, TheGroup)
    IN  SumSeq([k \in 1..Len(es) |-> Sub(es[k].amount, SplitTotal(es[k]))])

InputTotal(inputs) ==
    LET ids == SortedIds(DOMAIN inputs)
    IN  SumSeq([k \in 1..Len(ids) |-> inputs[ids[k]]])

RowsOf(rows, m) == {k \in DOMAIN rows : rows[k].member_id = m}

\* rows holds exactly one row for m, and its amount is owed
OneRow(rows, m, owed) ==
    /\ Cardinality(RowsOf(rows, m)) = 1
    /\ \A k \in RowsOf(rows, m) : rows[k].amount_owed = owed

\* the most recent call wrote an expense: it created one, or edited one
\* that exists
WroteExpense ==
    \/ last.op = "create_expense"
    \/ last.op = "update_expense" /\ last.expense_id \in DOMAIN expenses

LastSplits == expenses[last.expense_id].splits

\* C1 (as stated): after any sequence of validated expense operations and
\* settlements, the balances sum to 0 within 0.01.
C1_BalancesSumToZero == Le(AbsR(SumOfBalances(balances)), Cent)

\* C1 (amended): the balances sum to what the stored expenses leave
\* unallocated (amount minus the sum of the splits, over the expenses);
\* settlements do not change the sum.
C1_BalancesSumToUnallocated == SumOfBalances(balances) = Unallocated

C1_Witness ==
    /\ DOMAIN expenses # {}
    /\ Len(settlements) = 1
    /\ Gt(AbsR(SumOfBalances(balances)), Cent)

\* the plan of a finished simplify_debts call, as Settlement rows
PlanRows ==
    [k \in 1..Len(loop.transactions) |->
        SettlementRow(TheGroup, loop.transactions[k].payer,
                      loop.transactions[k].receiver, loop.transactions[k].amount)]

\* C2 (as stated): once every transaction simplify_debts returned for a
\* balance map is recorded as a settlement, every member's balance is
\* within 0.01 of zero.
C2_PlanSettlesEveryone ==
    loop.pc = "done" =>
        \A m \in DOMAIN balances :
            Le(AbsR(ApplySettlements(balances, PlanRows)[m]), Cent)

debtorCount == Cardinality({m \in DOMAIN loop.rounded : Lt(loop.rounded[m], Neg(Cent))})
creditorCount == Cardinality({m \in DOMAIN loop.rounded : Gt(loop.rounded[m], Cent)})

\* C3 (as stated): simplify_debts returns at most debtorCount +
\* creditorCount - 1 transactions.
C3_AtMostCountsMinusOne ==
    loop.pc = "done" => Len(loop.transactions) <= debtorCount + creditorCount - 1

\* C3 (amended): at most debtorCount + creditorCount - 1 transactions, and
\* none when there is no debtor or no creditor; the bound holds after every
\* iteration of the loop.
C3_AtMostCountsMinusOneOrNone ==
    loop.pc \in {"loop", "done"} =>
        IF debtorCount = 0 \/ creditorCount = 0
        THEN Len(loop.transactions) = 0
        ELSE Len(loop.transactions) <= debtorCount + creditorCount - 1

C3_Witness ==
    /\ loop.pc = "done"
    /\ debtorCount = 2
    /\ creditorCount = 1
    /\ Len(loop.transactions) = 2

\* the members a non-empty Equal selection marks as selected
Marked(inputs) == {m \in members : m \in DOMAIN inputs /\ inputs[m]}

\* C4 (as stated): create_expense and update_expense with the Equal policy
\* and a selection that marks no member fail with an invalid-split error.
C4_ZeroSelectedFails ==
    (/\ WroteExpense
     /\ last.split_type = "Equal"
     /\ DOMAIN last.split_inputs # {}
     /\ Marked(last.split_inputs) = {})
        => last.result = "InvalidSplitError"

\* C5: with the Equal policy and at least one selected member, every
\* selected member has exactly one split of amount / selectedCount and
\* nobody else has a split row.
C5_EqualSharePerSelected ==
    (/\ WroteExpense
     /\ last.split_type = "Equal"
     /\ Marked(last.split_inputs) # {})
        => LET selected == Marked(last.split_inputs)
               share == Div(last.amount, Rat(Cardinality(selected), 1))
           IN  /\ \A m \in selected : OneRow(LastSplits, m, share)
               /\ \A k \in DOMAIN LastSplits : LastSplits[k].member_id \in selected

C5_Witness ==
    /\ WroteExpense
    /\ last.split_type = "Equal"
    /\ Cardinality(Marked(last.split_inputs)) = 1
    /\ Cardinality(members) = 2
    /\ Len(LastSplits) = 1

\* C6 (as stated): an expense written with the Equal or the Percentage
\* policy from a form the screens accept has splits that sum to its amount
\* within 0.01.
C6_EqualPercentageWithinCent ==
    (WroteExpense /\ last.split_type \in {"Equal", "Percentage"})
        => Le(AbsR(Sub(SplitTotal(expenses[last.expense_id]), last.amount)), Cent)

\* C6 (amended): from an accepted form, the splits of an Equal expense sum
\* to its amount, and the splits of a Percentage expense sum to amount *
\* (sum of the percentages) / 100, which is within 0.001 * amount of the
\* amount.
C6_EqualExactPercentageScaled ==
    LET total == SplitTotal(expenses[last.expense_id])
    IN  /\ (WroteExpense /\ last.split_type = "Equal") => total = last.amount
        /\ (WroteExpense /\ last.split_type = "Percentage") =>
               /\ total = Mul(last.amount, Div(InputTotal(last.split_inputs), Hundred))
               /\ Le(AbsR(Sub(total, last.amount)),
                     Mul(AbsR(last.amount), Rat(1, 1000)))

C6_Witness ==
    /\ WroteExpense
    /\ last.split_type = "Percentage"
    /\ Gt(AbsR(Sub(SplitTotal(expenses[last.expense_id]), last.amount)), Cent)

\* C7 (as stated): an expense written through the screens with the Unequal,
\* Percentage or Shares policy has splits that sum to its amount within 0.1.
C7_SplitsWithinTenth ==
    (WroteExpense /\ last.split_type \in {"Unequal", "Percentage", "Shares"})
        => Le(AbsR(Sub(SplitTotal(expenses[last.expense_id]), last.amount)), Tenth)

\* C8: with the Unequal policy the call succeeds whatever the inputs sum
\* to, and the expense has exactly one split row per member of the group,
\* holding the member's input, or 0 without one.
C8_UnequalRowPerMember ==
    (WroteExpense /\ last.split_type = "Unequal")
        => /\ last.result = "ok"
           /\ Len(LastSplits) = Cardinality(members)
           /\ \A m \in members : OneRow(LastSplits, m, Get(last.split_inputs, m, Zero))

C8_Witness ==
    /\ WroteExpense
    /\ last.split_type = "Unequal"
    /\ InputTotal(last.split_inputs) # last.amount
    /\ \E m \in members : m \notin DOMAIN last.split_inputs /\ OneRow(LastSplits, m, Zero)

\* C9: with the Shares policy and a positive total of the supplied shares,
\* each member owes (memberShares / totalShares) * amount; with a total of
\* zero or less the expense is stored without splits and no error is raised.
C9_SharesOfSuppliedTotal ==
    (WroteExpense /\ last.split_type = "Shares")
        => LET totalShares == InputTotal(last.split_inputs)
           IN  /\ last.result = "ok"
               /\ last.expense_id \in DOMAIN expenses
               /\ IF Gt(totalShares, Zero)
                  THEN /\ Len(LastSplits) = Cardinality(members)
                       /\ \A m \in members :
                              OneRow(LastSplits, m,
                                     Mul(Div(Get(last.split_inputs, m, Zero), totalShares),
                                         last.amount))
                  ELSE LastSplits = <<>>

C9_Witness ==
    /\ WroteExpense
    /\ last.split_type = "Shares"
    /\ DOMAIN last.split_inputs \ members # {}
    /\ Gt(InputTotal(last.split_inputs), Zero)
    /\ \E m \in members : Gt(Get(last.split_inputs, m, Zero), Zero)

\* the four sums of C10, over the stored rows of the group
PaidBy(m) ==
    LET es == ExpensesOf(expenses, TheGroup)
    IN  SumSeq([k \in 1..Len(es) |->
                   IF es[k].payer_member_id = m THEN es[k].amount ELSE Zero])

OwedBy(m) ==
    LET es == ExpensesOf(expenses, TheGroup)
    IN  SumSeq([k \in 1..Len(es) |->
                   SumSeq([j \in 1..Len(es[k].splits) |->
                              IF es[k].splits[j].member_id = m
                              THEN es[k].splits[j].amount_owed ELSE Zero])])

SentBy(m) ==
    SumSeq([k \in 1..Len(settlements) |->
               IF settlements[k].group_id = TheGroup /\ settlements[k].payer_member_id = m
               THEN settlements[k].amount ELSE Zero])

ReceivedBy(m) ==
    SumSeq([k \in 1..Len(settlements) |->
               IF settlements[k].group_id = TheGroup /\ settlements[k].receiver_member_id = m
               THEN settlements[k].amount ELSE Zero])

\* C10: for every member m of the group, calculate_member_balances returns
\* paid(m) - owed(m) + settlements sent by m - settlements received by m.
C10_BalanceFormula ==
    LET result == calculate_member_balances(members, expenses, settlements, TheGroup)
    IN  /\ DOMAIN result = members
        /\ \A m \in members :
               result[m] = Sub(Add(Sub(PaidBy(m), OwedBy(m)), SentBy(m)), ReceivedBy(m))

C10_Witness ==
    \E m \in members, o \in members :
        /\ m # o
        /\ Gt(PaidBy(m), Zero)
        /\ Gt(OwedBy(m), Zero)
        /\ Gt(SentBy(o), Zero)
        /\ Gt(ReceivedBy(m), Zero)

\* C11: for a group id without a Group row calculate_member_balances returns
\* the empty mapping, also when settlements carrying that id are stored.
C11_MissingGroupEmptyMap ==
    calculate_member_balances(members, expenses, settlements, MissingGroup) = <<>>

C11_Witness ==
    /\ \E k \in DOMAIN settlements :
           /\ settlements[k].group_id = MissingGroup
           /\ settlements[k].payer_member_id \in members
    /\ DOMAIN expenses # {}

\* no stored row of the group names m
NoHistory(m) ==
    /\ PaidBy(m) = Zero /\ OwedBy(m) = Zero
    /\ \A k \in DOMAIN settlements :
           m \notin {settlements[k].payer_member_id, settlements[k].receiver_member_id}
    /\ \A e \in DOMAIN expenses : RowsOf(expenses[e].splits, m) = {}

\* C12: the keys of the mapping calculate_member_balances returns are
\* exactly the ids of the group's current members, a member no row names
\* has balance 0, and a removed member is absent although stored rows
\* still name it.
C12_KeysAreCurrentMembers ==
    LET result == calculate_member_balances(members, expenses, settlements, TheGroup)
    IN  /\ DOMAIN result = members
        /\ \A m \in members : NoHistory(m) => result[m] = Zero

\* a settlement names a member that has been removed
C12_Witness ==
    /\ \E k \in DOMAIN settlements : settlements[k].payer_member_id \notin members
    /\ \E m \in members : ~NoHistory(m)

\* members that appear in a transaction of the loop so far
Payers == {loop.transactions[k].payer : k \in DOMAIN loop.transactions}
Receivers == {loop.transactions[k].receiver : k \in DOMAIN loop.transactions}

\* the balance counts as settled: rounded, it lies within [-0.01, 0.01]
Settled(amount) == Le(Neg(Cent), amount) /\ Le(amount, Cent)

\* C14: only members whose rounded balance is below -0.01 pay and only
\* members whose rounded balance is above 0.01 receive in the transactions
\* of simplify_debts; a member whose rounded balance lies within
\* [-0.01, 0.01] is in no transaction.
C14_SettledMembersExcluded ==
    loop.pc \in {"loop", "done"} =>
        /\ \A m \in Payers : Lt(loop.rounded[m], Neg(Cent))
        /\ \A m \in Receivers : Gt(loop.rounded[m], Cent)
        /\ \A m \in DOMAIN loop.rounded :
               Settled(loop.rounded[m]) => m \notin Payers \cup Receivers

C14_Witness ==
    /\ loop.pc = "done"
    /\ Len(loop.transactions) >= 1
    /\ \E m \in DOMAIN loop.rounded :
           /\ loop.rounded[m] # Zero
           /\ Settled(loop.rounded[m])

Asked == status.group_id = TheGroup

\* C16: with a budget that is absent or not greater than 0,
\* get_budget_status reports percentage_used = 0 and no alert, whatever the
\* total spent.
C16_NoBudgetNoAlert ==
    (Asked /\ (status.budget_amount.none \/ Le(status.budget_amount.value, Zero)))
        => /\ status.percentage_used = Zero
           /\ status.alerts = <<>>

C16_Witness ==
    /\ Asked
    /\ ~status.budget_amount.none
    /\ Lt(status.budget_amount.value, Zero)
    /\ Gt(status.total_spent, Zero)

\* C17: with a positive budget get_budget_status gives at most one alert,
\* that of the highest threshold percentage_used has reached: "exceeded"
\* from 100 on, "nearing limit" from 80 on, "50% used" from 50 on, none
\* below 50; a percentage equal to a threshold has reached it.
C17_OneAlertHighestThreshold ==
    (Asked /\ ~status.budget_amount.none /\ Gt(status.budget_amount.value, Zero))
        => LET p == status.percentage_used
           IN  /\ Len(status.alerts) <= 1
               /\ Le(Hundred, p) => status.alerts = <<"Budget exceeded">>
               /\ (Le(Eighty, p) /\ Lt(p, Hundred))
                      => status.alerts = <<"80% of budget used - nearing limit">>
               /\ (Le(Fifty, p) /\ Lt(p, Eighty))
                      => status.alerts = <<"50% of budget used">>
               /\ Lt(p, Fifty) => status.alerts = <<>>

C17_Witness ==
    /\ Asked
    /\ status.percentage_used = Eighty
    /\ status.alerts = <<"80% of budget used - nearing limit">>

\* the one expense of the scenario, and the map calculated after it
TheExpense == expenses[CHOOSE e \in DOMAIN expenses : TRUE]
EqualShare == Div(TheExpense.amount, Rat(Cardinality(members), 1))
Calculated ==
    /\ Cardinality(DOMAIN expenses) = 1
    /\ DOMAIN balances = members
    /\ balances = calculate_member_balances(members, expenses, settlements, TheGroup)
    /\ Gt(EqualShare, Cent)

\* the balances of the scenario: a - a/n for the payer, -a/n for the others
ScenarioBalances ==
    \A m \in members :
        balances[m] = IF m = TheExpense.payer_member_id
                      THEN Sub(TheExpense.amount, EqualShare)
                      ELSE Neg(EqualShare)

\* every transaction so far goes from a non-payer, each a different one, to
\* the payer of the expense
FromOthersToPayer ==
    /\ \A k \in DOMAIN loop.transactions :
           /\ loop.transactions[k].receiver = TheExpense.payer_member_id
           /\ loop.transactions[k].payer \in members \ {TheExpense.payer_member_id}
    /\ \A k, l \in DOMAIN loop.transactions :
           k # l => loop.transactions[k].payer # loop.transactions[l].payer

WholeCents(x) == Round2(x) = {x}

\* C18 (as stated): with one expense a paid by p and split Equal among all
\* n members (a/n > 0.01) the balances are a - a/n for p and -a/n for the
\* others, and simplify_debts returns exactly n - 1 transactions, each from
\* a distinct non-payer to p for a/n.
C18_ScenarioExactShares ==
    Calculated =>
        /\ ScenarioBalances
        /\ loop.pc = "done" =>
               /\ Len(loop.transactions) = Cardinality(members) - 1
               /\ FromOthersToPayer
               /\ \A k \in DOMAIN loop.transactions :
                      loop.transactions[k].amount = EqualShare

\* C18 (amended): the balances are as stated; simplify_debts returns at
\* most n - 1 transactions, each from a distinct non-payer to p for at most
\* a/n rounded to 2 decimals; when a/n is a whole number of cents it
\* returns exactly n - 1 transactions of a/n each.
C18_ScenarioRoundedShares ==
    Calculated =>
        /\ ScenarioBalances
        /\ loop.pc \in {"loop", "done"} =>
               /\ Len(loop.transactions) <= Cardinality(members) - 1
               /\ FromOthersToPayer
               /\ \A k \in DOMAIN loop.transactions :
                      \E r \in Round2(EqualShare) : Le(loop.transactions[k].amount, r)
        /\ (loop.pc = "done" /\ WholeCents(EqualShare)) =>
               /\ Len(loop.transactions) = Cardinality(members) - 1
               /\ \A k \in DOMAIN loop.transactions :
                      loop.transactions[k].amount = EqualShare

C18_Witness ==
    /\ Calculated
    /\ loop.pc = "done"
    /\ Cardinality(members) = 3
    /\ WholeCents(EqualShare)
    /\ Len(loop.transactions) = 2

\* the most recent call created or edited an expense and returned it
WroteOk == WroteExpense /\ last.result = "ok"

\* C19: after create_expense and update_expense calls the stored splits of
\* an expense are exactly the allocation of its most recent create or edit
\* (nothing of an earlier allocation remains), and no expense has two
\* splits for one member.
C19_SplitsAreLatestAllocation ==
    /\ WroteOk =>
           LastSplits = ComputeSplits(MemberList, last.amount, last.split_type,
                                      last.split_inputs)
    /\ \A e \in DOMAIN expenses : \A m \in MemberIds :
           Cardinality(RowsOf(expenses[e].splits, m)) <= 1

C19_Witness ==
    /\ WroteOk
    /\ last.op = "update_expense"
    /\ last.split_type = "Equal"
    /\ Cardinality(members) = 2
    /\ Len(LastSplits) = 1

\* C20: update_expense with an id no expense has raises the not-found
\* error and changes no stored expense or split.
C20_MissingExpenseUnchanged ==
    [][(last'.op = "update_expense" /\ last'.expense_id \notin DOMAIN expenses)
          => /\ last'.result = "ValueError"
             /\ expenses' = expenses]_vars

C20_Witness ==
    /\ last.op = "update_expense"
    /\ last.result = "ValueError"
    /\ DOMAIN expenses # {}

\* C21: a settlement, once recorded, is never modified or removed: every
\* step keeps each stored settlement, in its place and with its group,
\* payer, receiver and amount, and can only add to them.
C21_SettlementsOnlyGrow ==
    [][/\ Len(settlements') >= Len(settlements)
       /\ \A k \in DOMAIN settlements : settlements'[k] = settlements[k]]_vars

C21_Witness ==
    /\ Len(settlements) = 1
    /\ last.op = "update_expense"
    /\ \E k \in DOMAIN settlements : settlements[k].payer_member_id \notin members

\* C22 (as stated): every stored split has an owed amount of zero or more
\* after any sequence of expense creations and edits the add and edit
\* screens accept.
C22_SplitsNotNegative ==
    \A e \in DOMAIN expenses : \A k \in DOMAIN expenses[e].splits :
        Le(Zero, expenses[e].splits[k].amount_owed)

\* C23 (as stated): in every reachable state the payer of every stored
\* expense is a current member of the group.
C23_PayerIsMember ==
    \A e \in DOMAIN expenses : expenses[e].payer_member_id \in members

\* C24: deleting an expense removes it with its splits, so that deleting
\* the expense a create_expense call has just stored gives back every
\* member's balance and the total spent of before the call; and
\* delete_expense with an id no expense has changes nothing.
C24_CreateThenDeleteRestores ==
    [][/\ (last'.op = "create_expense" /\ last'.result = "ok") =>
              LET back == WithoutExpense(expenses', last'.expense_id)
              IN  /\ calculate_member_balances(members', back, settlements', TheGroup)
                       = calculate_member_balances(members, expenses, settlements, TheGroup)
                  /\ calculate_total_spent(back, TheGroup)
                       = calculate_total_spent(expenses, TheGroup)
       /\ last'.op = "delete_expense" =>
              /\ expenses' = WithoutExpense(expenses, last'.expense_id)
              /\ last'.expense_id \notin DOMAIN expenses => expenses' = expenses
              /\ UNCHANGED <<members, settlements>>]_vars

C24_Witness ==
    /\ last.op = "delete_expense"
    /\ DOMAIN expenses = {}
    /\ Len(settlements) = 1

\* C25: an expense edit is atomic for readers: a calculate_member_balances
\* call running while expenses are edited works on the amount, payer and
\* splits of one committed state of the expenses, the old or the new,
\* never on a mixture.
C25_ReaderSeesOldOrNew ==
    reader.pc = "done" => reader.rows \in reader.seen

\* the votes table keeps "one vote per member per poll"
OneVoteAtMost(rows) ==
    \A p \in PollIdArgs, m \in MemberIds : Cardinality(VotesOf(rows, p, m)) <= 1

OptionsVoted(rows, p, m) == {rows[k].option_id : k \in VotesOf(rows, p, m)}

\* C26: after any sequence of vote_poll calls every (poll, member) pair has
\* at most one vote; a successful call leaves the pair's one vote on the
\* option it named and the votes of every other pair as they were, so the
\* vote stored is always that of the member's most recent successful call;
\* a call naming an option that does not belong to the poll raises an
\* error and leaves the votes unchanged.
C26_OneVoteLatestOption ==
    [][LET call == votes'.call
       IN  /\ OneVoteAtMost(votes'.rows)
           /\ call.result = "ok" =>
                  /\ OptionsVoted(votes'.rows, call.poll_id, call.member_id)
                       = {call.option_id}
                  /\ \A p \in PollIdArgs, m \in MemberIds :
                         <<p, m>> # <<call.poll_id, call.member_id>> =>
                             OptionsVoted(votes'.rows, p, m) = OptionsVoted(votes.rows, p, m)
           /\ (call.poll_id \notin DOMAIN PollOptions
                 \/ call.option_id \notin PollOptions[call.poll_id]) =>
                  /\ call.result # "ok"
                  /\ votes'.rows = votes.rows]_vars

\* a member has voted again on poll 1 after somebody voted elsewhere
C26_Witness ==
    /\ votes.call = VoteCall("ok", 1, 2, 1)
    /\ Len(votes.rows) = 2
    /\ votes.rows[1] = PollVote(1, 2, 1)

\* the entries the cursors stand on, and whether a remainder is zero
Exhausted(entry) == entry.amount = Zero

\* C27: simplify_debts terminates: every iteration of its loop brings the
\* remaining balance of the current debtor or of the current creditor to
\* zero and advances at least one cursor, so the loop runs at most
\* debtorCount + creditorCount times.
C27_EachIterationAdvances ==
    [][(loop.pc = "loop" /\ loop'.pc = "loop") =>
          /\ \/ Exhausted(loop'.debtors[loop.i + 1])
             \/ Exhausted(loop'.creditors[loop.j + 1])
          /\ loop'.i + loop'.j > loop.i + loop.j
          /\ Len(loop'.transactions) <= Len(loop.debtors) + Len(loop.creditors)]_vars

\* what a member pays and receives in the transactions of the call
AmountsOf(transactions) == [k \in DOMAIN transactions |-> transactions[k].amount]
PlanPaidBy(m) == SumSeq(AmountsOf(SelectSeq(loop.transactions, LAMBDA t : t.payer = m)))
PlanReceivedBy(m) == SumSeq(AmountsOf(SelectSeq(loop.transactions, LAMBDA t : t.receiver = m)))

\* C28: in every plan simplify_debts returns each transaction has an amount
\* above zero and a payer other than its receiver; what a member pays in
\* all is at most the absolute value of the member's rounded balance, and
\* what a member receives in all is at most the member's rounded balance.
C28_NobodyOverpaysOrOverreceives ==
    loop.pc = "done" =>
        /\ \A k \in DOMAIN loop.transactions :
               /\ Gt(loop.transactions[k].amount, Zero)
               /\ loop.transactions[k].payer # loop.transactions[k].receiver
        /\ \A m \in Payers : Le(PlanPaidBy(m), AbsR(loop.rounded[m]))
        /\ \A m \in Receivers : Le(PlanReceivedBy(m), loop.rounded[m])

\* a member pays two creditors, in all exactly what the member owes
C28_Witness ==
    /\ loop.pc = "done"
    /\ \E m \in Payers :
           /\ Len(SelectSeq(loop.transactions, LAMBDA t : t.payer = m)) = 2
           /\ PlanPaidBy(m) = AbsR(loop.rounded[m])

\* the settlements that record a plan, each transaction once and in order
Recorded(plan) ==
    [k \in DOMAIN plan |->
        SettlementRow(TheGroup, plan[k].payer, plan[k].receiver, plan[k].amount)]

\* C29: when the settlements stored are exactly the transactions of a plan
\* simplify_debts returned for the balances of the expenses, each recorded
\* once, then simplify_debts on the balances calculated anew returns an
\* empty plan.  (An empty plan leaves nothing to record, and the balances
\* as they were.)
C29_FollowedPlanSettles ==
    (/\ loop.pc = "done"
     /\ settlements # <<>>
     /\ balances = calculate_member_balances(members, expenses, settlements, TheGroup)
     /\ \E plan \in simplify_debts(
               calculate_member_balances(members, expenses, <<>>, TheGroup)) :
            settlements = Recorded(plan))
        => loop.transactions = <<>>

\* C30: in any interleaving of sessions that each compute the plan and
\* then record one of its transactions, a settlement that is recorded
\* never raises its payer's balance above 0.01 nor lowers its receiver's
\* balance below -0.01.
C30_NeverOverSettles ==
    [][Len(settlements') > Len(settlements) =>
          LET s == settlements'[Len(settlements')]
              bal == calculate_member_balances(members', expenses', settlements', TheGroup)
          IN  /\ s.payer_member_id \in DOMAIN bal => Le(bal[s.payer_member_id], Cent)
              /\ s.receiver_member_id \in DOMAIN bal =>
                     Le(Neg(Cent), bal[s.receiver_member_id])]_vars

====
